---- MODULE Spec2Model ----
(***************************************************************************)
(* BLMID Validator: the reconciliation core of                             *)
(*   src/BLMID_Validator/blmid_validator/excel_processor.py                *)
(*   src/BLMID_Validator/blmid_validator/validator.py                      *)
(*   src/BLMID_Validator/blmid_validator/database.py                       *)
(*                                                                         *)
(* Coordinates are integers counting units of 0.0001 degree (the default   *)
(* coordinate tolerance), so the tolerance is 1 unit and 90 degrees is     *)
(* 900000 units; binary floating-point rounding is not modelled.  Text is  *)
(* a sequence of one-character strings, so that upper(), strip(), str()    *)
(* and float() are computed, not assumed.                                  *)
(***************************************************************************)
EXTENDS Integers, Sequences, FiniteSets, TLC

VARIABLES
    pc,            \* position of process_excel_batch / of the decide harness
    extracted_df,  \* the extracted spreadsheet as read (columns, rows)
    reference_df,  \* the reference spreadsheet as read (columns, rows)
    db,            \* self.db: the authority source
    idx,           \* number of rows the batch loop has consumed
    results,       \* the results dict of process_excel_batch
    raised,        \* row labels whose processing entered the except branch
    call,          \* arguments of one direct call of a decide function
    outcome        \* what that call returned or raised, and its summary class

vars == <<pc, extracted_df, reference_df, db, idx, results, raised, call, outcome>>

----------------------------------------------------------------------------
(* Bounds of the model *)

MaxRows == 3       \* rows of the extracted sheet in a batch
MaxRefRows == 2    \* rows of the reference sheet in a direct call
MaxDbRows == 2     \* rows of the live authority table in a direct call
MaxExtractions == 2    \* extractions handed to batch_validate

----------------------------------------------------------------------------
(* Python values: a number, NaN, a text, or None *)

Num(n) == [t |-> "num", n |-> n, s |-> <<>>]
NaN == [t |-> "nan", n |-> 0, s |-> <<>>]
Str(s) == [t |-> "str", n |-> 0, s |-> s]
None == [t |-> "none", n |-> 0, s |-> <<>>]

IsNum(v) == v.t = "num"
IsStr(v) == v.t = "str"
IsFloat(v) == v.t \in {"num", "nan"}

\* One model unit is 0.0001 degree: 1 degree = DegreeUnits units.
DegreeUnits == 10000

\* Python's x < y and x <= y on floats: every comparison with NaN is False.
FloatLt(x, y) == IsNum(x) /\ IsNum(y) /\ x.n < y.n
FloatLe(x, y) == IsNum(x) /\ IsNum(y) /\ x.n <= y.n
FloatGt(x, y) == FloatLt(y, x)

\* abs(x - y) on floats; NaN propagates.
AbsDiff(x, y) ==
    IF IsNum(x) /\ IsNum(y)
    THEN Num(IF x.n >= y.n THEN x.n - y.n ELSE y.n - x.n)
    ELSE NaN

----------------------------------------------------------------------------
(* Text *)

UpperLetters ==
    <<"A", "B", "C", "D", "E", "F", "G", "H", "I", "J", "K", "L", "M",
      "N", "O", "P", "Q", "R", "S", "T", "U", "V", "W", "X", "Y", "Z">>

LowerLetters ==
    <<"a", "b", "c", "d", "e", "f", "g", "h", "i", "j", "k", "l", "m",
      "n", "o", "p", "q", "r", "s", "t", "u", "v", "w", "x", "y", "z">>

UpperChar(c) ==
    IF \E i \in 1..26 : LowerLetters[i] = c
    THEN UpperLetters[CHOOSE i \in 1..26 : LowerLetters[i] = c]
    ELSE c

LowerChar(c) ==
    IF \E i \in 1..26 : UpperLetters[i] = c
    THEN LowerLetters[CHOOSE i \in 1..26 : UpperLetters[i] = c]
    ELSE c

str_upper(s) == [i \in 1..Len(s) |-> UpperChar(s[i])]

str_lower(s) == [i \in 1..Len(s) |-> LowerChar(s[i])]

\* Python's `sub in s` on text.
Contains(s, sub) ==
    \E i \in 1..(Len(s) - Len(sub) + 1) : SubSeq(s, i, i + Len(sub) - 1) = sub

RECURSIVE lstrip(_)
lstrip(s) == IF s # <<>> /\ Head(s) = " " THEN lstrip(Tail(s)) ELSE s

RECURSIVE rstrip(_)
rstrip(s) ==
    IF s # <<>> /\ s[Len(s)] = " " THEN rstrip(SubSeq(s, 1, Len(s) - 1)) ELSE s

str_strip(s) == rstrip(lstrip(s))

Digits == <<"0", "1", "2", "3", "4", "5", "6", "7", "8", "9">>

DigitValue(c) == CHOOSE d \in 0..9 : Digits[d + 1] = c

IsDigit(c) == \E d \in 0..9 : Digits[d + 1] = c

RECURSIVE DecimalText(_)
DecimalText(n) ==
    IF n < 10 THEN <<Digits[n + 1]>>
    ELSE DecimalText(n \div 10) \o <<Digits[(n % 10) + 1]>>

RECURSIVE DecimalValue(_)
DecimalValue(s) ==
    IF s = <<>> THEN 0
    ELSE 10 * DecimalValue(SubSeq(s, 1, Len(s) - 1)) + DigitValue(s[Len(s)])

\* str(v) of a cell value: a text is itself, a missing cell (NaN) is "nan",
\* None is "None", a whole number is its decimal digits.
py_str(v) ==
    CASE v.t = "str" -> v.s
      [] v.t = "nan" -> <<"n", "a", "n">>
      [] v.t = "none" -> <<"N", "o", "n", "e">>
      [] OTHER -> IF v.n < 0 THEN <<"-">> \o DecimalText(0 - v.n)
                  ELSE DecimalText(v.n)

----------------------------------------------------------------------------
(* Exceptions: a raise is a record naming the exception type and str(e) *)

Ok(v) == [raised |-> FALSE, value |-> v]
Raise(type, msg) == [raised |-> TRUE, type |-> type, msg |-> msg]

\* float(v): numbers pass, a text of digits (after strip) is parsed as
\* degrees, any other text raises ValueError, None raises TypeError.
py_float(v) ==
    CASE v.t \in {"num", "nan"} -> Ok(v)
      [] v.t = "none" ->
            Raise("TypeError",
                  "float() argument must be a string or a real number, not 'NoneType'")
      [] OTHER ->
            LET s == str_strip(v.s) IN
            IF s # <<>> /\ \A i \in 1..Len(s) : IsDigit(s[i])
            THEN Ok(Num(DecimalValue(s) * DegreeUnits))
            ELSE Raise("ValueError", "could not convert string to float")

----------------------------------------------------------------------------
(* Data frames: column labels (text) and rows of cells, one cell per       *)
(* column.  A row's label is its 0-based position (pandas RangeIndex).     *)

Frame(columns, rows) == [columns |-> columns, rows |-> rows]

HasColumn(df, name) == \E j \in 1..Len(df.columns) : df.columns[j] = name

ColumnIndex(df, name) ==
    CHOOSE j \in 1..Len(df.columns) :
        /\ df.columns[j] = name
        /\ \A k \in 1..(j - 1) : df.columns[k] # name

\* df.empty: no rows or no columns.
IsEmpty(df) == Len(df.rows) = 0 \/ Len(df.columns) = 0

\* row.get(name, default)
row_get(df, r, name, default) ==
    IF HasColumn(df, name) THEN df.rows[r][ColumnIndex(df, name)] ELSE default

cBLMID == <<"B", "L", "M", "I", "D">>
cLatitude == <<"L", "a", "t", "i", "t", "u", "d", "e">>
cLongitude == <<"L", "o", "n", "g", "i", "t", "u", "d", "e">>

\* The new name _standardize_columns gives one column label.
StandardName(col) ==
    LET col_lower == str_lower(col) IN
    IF Contains(col_lower, <<"b", "l", "m", "i", "d">>) THEN cBLMID
    ELSE IF Contains(col_lower, str_lower(cLatitude))
            \/ Contains(col_lower, <<"l", "a", "t">>) THEN cLatitude
    ELSE IF Contains(col_lower, str_lower(cLongitude))
            \/ Contains(col_lower, <<"l", "o", "n">>) THEN cLongitude
    ELSE col

_standardize_columns(df) ==
    Frame([j \in 1..Len(df.columns) |-> StandardName(df.columns[j])], df.rows)

----------------------------------------------------------------------------
(* The authority source (database.py).  db.kind is "mock" (MockDatabase)   *)
(* or "live" (DatabaseConnector); db.records are the stored records, for   *)
(* the live table in the order the query engine scans them; db.reachable   *)
(* tells whether a connection can be made.                                 *)

Record(blmid, latitude, longitude) ==
    [blmid |-> blmid, latitude |-> latitude, longitude |-> longitude]

\* abs(a - b) <= tolerance on Python values: Ok(TRUE/FALSE), or TypeError
\* when an operand is a text or None.
WithinTolerance(a, b, tol) ==
    IF IsFloat(a) /\ IsFloat(b)
    THEN Ok(FloatLe(AbsDiff(a, b), Num(tol)))
    ELSE Raise("TypeError", "unsupported operand type(s) for -")

\* Mutant: the stored record itself is handed back, so what the caller
\* writes to it is written to the store.
MockRecordsAliased(records, returned, written) ==
    IF \E i \in 1..Len(records) : records[i] = returned
    THEN LET first == CHOOSE i \in 1..Len(records) :
                         /\ records[i] = returned
                         /\ \A k \in 1..(i - 1) : records[k] # returned
         IN [records EXCEPT ![first] = written]
    ELSE records

\* self.records after the caller has changed a record that
\* find_by_coordinates returned: record.copy() hands back a new dict, so
\* the stored records stay as they were.
MockRecordsAfterWrite(records, returned, written) == records

\* MockDatabase.find_by_coordinates from record i on: the first record
\* within tolerance on both axes (a copy), None when there is none.
RECURSIVE MockScan(_, _, _, _, _)
MockScan(records, i, latitude, longitude, tol) ==
    IF i > Len(records) THEN Ok(None)
    ELSE LET lat_ok == WithinTolerance(records[i].latitude, latitude, tol) IN
         IF lat_ok.raised THEN lat_ok
         ELSE IF ~lat_ok.value
              THEN MockScan(records, i + 1, latitude, longitude, tol)
         ELSE LET lon_ok == WithinTolerance(records[i].longitude, longitude, tol) IN
              IF lon_ok.raised THEN lon_ok
              ELSE IF ~lon_ok.value
                   THEN MockScan(records, i + 1, latitude, longitude, tol)
              ELSE Ok(records[i])

MockDatabase_find_by_coordinates(records, latitude, longitude, tol) ==
    MockScan(records, 1, latitude, longitude, tol)

\* The rows the SQL WHERE clause keeps: NULL and NaN never compare true.
SqlMatches(records, latitude, longitude, tol) ==
    {i \in 1..Len(records) :
        /\ FloatLe(AbsDiff(records[i].latitude, latitude), Num(tol))
        /\ FloatLe(AbsDiff(records[i].longitude, longitude), Num(tol))}

\* The row LIMIT 1 keeps of the matching rows.  The query has no ORDER BY,
\* so which row comes first is the engine's choice: d.scan is the order in
\* which this engine yields the rows of the table.
LimitOne(d, hits) ==
    IF d.scan = "backward"
    THEN CHOOSE i \in hits : \A k \in hits : i >= k
    ELSE CHOOSE i \in hits : \A k \in hits : i <= k

\* DatabaseConnector.find_by_coordinates: None when the connection or the
\* query fails (psycopg2.Error is caught), else the first row the engine
\* yields with LIMIT 1, its coordinates converted with float().
DatabaseConnector_find_by_coordinates(d, latitude, longitude, tol) ==
    IF ~d.reachable THEN Ok(None)
    ELSE IF \E i \in 1..Len(d.records) :
                IsStr(d.records[i].latitude) \/ IsStr(d.records[i].longitude)
         THEN Ok(None)
    ELSE LET hits == SqlMatches(d.records, latitude, longitude, tol) IN
         IF hits = {} THEN Ok(None)
         ELSE LET row == d.records[LimitOne(d, hits)]
                  lat == py_float(row.latitude)
                  lon == py_float(row.longitude)
              IN IF lat.raised THEN lat
                 ELSE IF lon.raised THEN lon
                 ELSE Ok(Record(row.blmid, lat.value, lon.value))

\* self.db.find_by_coordinates(latitude, longitude, tolerance)
db_find_by_coordinates(d, latitude, longitude, tol) ==
    IF d.kind = "mock"
    THEN MockDatabase_find_by_coordinates(d.records, latitude, longitude, tol)
    ELSE DatabaseConnector_find_by_coordinates(d, latitude, longitude, tol)

\* Mutant: the identifier of the authority's record is compared as stored,
\* without upper().
py_upper_missing(v) ==
    IF IsStr(v) THEN Ok(v.s)
    ELSE Raise("AttributeError", "object has no attribute 'upper'")

\* s.upper() on a Python value: AttributeError unless it is a text.
py_upper(v) ==
    IF IsStr(v) THEN Ok(str_upper(v.s))
    ELSE Raise("AttributeError", "object has no attribute 'upper'")

----------------------------------------------------------------------------
(* DirectExcelProcessor (excel_processor.py) *)

\* self.tolerance: validation.coordinate_tolerance, default 0.0001 degree.
tolerance == 1

\* A message: its fixed wording and the value an f-string puts into it.
Message(text, arg) == [text |-> text, arg |-> arg]

FirstOf(S) == CHOOSE i \in S : \A k \in S : i <= k

\* The rows of reference_df whose BLMID, as text, equals blmid
\* case-insensitively.
BlmidMatches(blmid, df) ==
    {r \in 1..Len(df.rows) :
        str_upper(py_str(row_get(df, r, cBLMID, None))) = str_upper(blmid)}

\* The first stage of _find_in_reference: "exact", None (fall through
\* to the coordinate scan), or a KeyError that is not caught.
ExactStage(blmid, latitude, longitude, df) ==
    IF ~HasColumn(df, cBLMID) \/ BlmidMatches(blmid, df) = {} THEN Ok(None)
    ELSE LET r == FirstOf(BlmidMatches(blmid, df)) IN
         IF ~HasColumn(df, cLatitude) THEN Raise("KeyError", "'Latitude'")
         ELSE LET ref_lat == py_float(row_get(df, r, cLatitude, None)) IN
         IF ref_lat.raised THEN Ok(None)
         ELSE IF ~HasColumn(df, cLongitude) THEN Raise("KeyError", "'Longitude'")
         ELSE LET ref_lon == py_float(row_get(df, r, cLongitude, None)) IN
         IF ref_lon.raised THEN Ok(None)
         ELSE IF /\ FloatLe(AbsDiff(ref_lat.value, latitude), Num(tolerance))
                 /\ FloatLe(AbsDiff(ref_lon.value, longitude), Num(tolerance))
              THEN Ok([match_type |-> "exact", row |-> r])
              ELSE Ok(None)

\* The rows within tolerance on both axes (the boolean mask of the scan).
CoordMatches(latitude, longitude, df) ==
    {r \in 1..Len(df.rows) :
        /\ FloatLe(AbsDiff(row_get(df, r, cLatitude, None), latitude),
                   Num(tolerance))
        /\ FloatLe(AbsDiff(row_get(df, r, cLongitude, None), longitude),
                   Num(tolerance))}

\* A column holding a text or None cell cannot be subtracted from: the
\* vectorised comparison raises TypeError, which the scan swallows.
ColumnIsNumeric(df, name) ==
    \A r \in 1..Len(df.rows) : IsFloat(row_get(df, r, name, None))

CoordinateStage(latitude, longitude, df) ==
    IF ~(HasColumn(df, cLatitude) /\ HasColumn(df, cLongitude)) THEN Ok(None)
    ELSE IF ~(ColumnIsNumeric(df, cLatitude) /\ ColumnIsNumeric(df, cLongitude))
         THEN Ok(None)
    ELSE IF CoordMatches(latitude, longitude, df) = {} THEN Ok(None)
    ELSE LET r == FirstOf(CoordMatches(latitude, longitude, df)) IN
         IF ~HasColumn(df, cBLMID) THEN Raise("KeyError", "'BLMID'")
         ELSE Ok([match_type |-> "coordinate", row |-> r,
                  blmid |-> row_get(df, r, cBLMID, None)])

_find_in_reference(blmid, latitude, longitude, df) ==
    IF IsEmpty(df) THEN Ok(None)
    ELSE LET exact == ExactStage(blmid, latitude, longitude, df) IN
         IF exact.raised THEN exact
         ELSE IF exact.value # None THEN exact
         ELSE CoordinateStage(latitude, longitude, df)

\* Mutant: the match type is compared with a word the resolver never
\* returns, so the short-circuit is never taken.
IsExactMisspelt(ref_match) ==
    ref_match # None /\ ref_match.match_type = "EXACT"

\* Mutant: any reference match, a coordinate match included, is taken for
\* an exact one.
IsExactOrCoordinate(ref_match) == ref_match # None

IsExact(ref_match) == ref_match # None /\ ref_match.match_type = "exact"

NoMatchError == "No matching BLMID found in reference or database"

\* The four dicts _validate_entry returns.
FailedDecision(blmid, latitude, longitude, row_index, error) ==
    [status |-> "failed", row |-> row_index, blmid |-> Str(blmid),
     latitude |-> latitude, longitude |-> longitude, error |-> error]

ValidDecision(blmid, latitude, longitude, row_index, source) ==
    [status |-> "valid", row |-> row_index, blmid |-> Str(blmid),
     latitude |-> latitude, longitude |-> longitude, source |-> source]

\* Mutant: the corrected dict repeats the entry's own identifier.
CorrectedDecisionOwnId(blmid, latitude, longitude, row_index, db_match) ==
    [status |-> "corrected", row |-> row_index,
     original_blmid |-> Str(blmid), corrected_blmid |-> Str(blmid),
     latitude |-> latitude, longitude |-> longitude,
     source |-> "database_correction"]

CorrectedDecision(blmid, latitude, longitude, row_index, db_match) ==
    [status |-> "corrected", row |-> row_index,
     original_blmid |-> Str(blmid), corrected_blmid |-> db_match.blmid,
     latitude |-> latitude, longitude |-> longitude,
     source |-> "database_correction"]

\* Mutant: with no authority record the entry is passed as valid.
NoMatchDecisionPasses(blmid, latitude, longitude, row_index) ==
    [status |-> "valid", row |-> row_index, blmid |-> Str(blmid),
     latitude |-> latitude, longitude |-> longitude,
     source |-> "reference_coordinate"]

NoMatchDecision(blmid, latitude, longitude, row_index) ==
    FailedDecision(blmid, latitude, longitude, row_index,
                   Message(NoMatchError, None))

\* What _validate_entry returns once the authority has answered db_match.
AuthorityDecision(blmid, latitude, longitude, row_index, db_match) ==
    IF db_match # None
    THEN LET up == py_upper(db_match.blmid) IN
         IF up.raised THEN up
         ELSE IF up.value # str_upper(blmid)
         THEN Ok(CorrectedDecision(blmid, latitude, longitude, row_index,
                                   db_match))
         ELSE Ok(ValidDecision(blmid, latitude, longitude, row_index,
                               "database_confirmed"))
    ELSE Ok(NoMatchDecision(blmid, latitude, longitude, row_index))

\* The two range checks at the head of _validate_entry: the error of the
\* first that fails, None when both pass.
RangeError(latitude, longitude) ==
    IF FloatLt(latitude, Num(0 - 90 * DegreeUnits))
       \/ FloatGt(latitude, Num(90 * DegreeUnits))
    THEN Message("Latitude {} out of range [-90, 90]", latitude)
    ELSE IF FloatLt(longitude, Num(0 - 180 * DegreeUnits))
            \/ FloatGt(longitude, Num(180 * DegreeUnits))
    THEN Message("Longitude {} out of range [-180, 180]", longitude)
    ELSE None

\* DirectExcelProcessor._validate_entry: blmid is a text, latitude and
\* longitude are floats (a number or NaN).
_validate_entry(blmid, latitude, longitude, df, row_index, d) ==
    IF RangeError(latitude, longitude) # None
    THEN Ok(FailedDecision(blmid, latitude, longitude, row_index,
                           RangeError(latitude, longitude)))
    ELSE LET ref_match == _find_in_reference(blmid, latitude, longitude, df) IN
         IF ref_match.raised THEN ref_match
         ELSE IF IsExact(ref_match.value)
         THEN Ok(ValidDecision(blmid, latitude, longitude, row_index,
                               "reference_exact"))
         ELSE LET db_match == db_find_by_coordinates(d, latitude, longitude,
                                                     tolerance) IN
              IF db_match.raised THEN db_match
              ELSE AuthorityDecision(blmid, latitude, longitude, row_index,
                                     db_match.value)

\* Mutant: the coordinates are read from the row before, where there is
\* one.
TryRowNeighbour(ext, ref, d, r) ==
    LET q == IF r > 1 THEN r - 1 ELSE r
        blmid == str_strip(py_str(row_get(ext, r, cBLMID, Str(<<>>))))
        latitude == py_float(row_get(ext, q, cLatitude, None))
    IN IF latitude.raised THEN latitude
       ELSE LET longitude == py_float(row_get(ext, q, cLongitude, None)) IN
            IF longitude.raised THEN longitude
            ELSE _validate_entry(blmid, latitude.value, longitude.value,
                                 ref, r - 1, d)

\* The body of the try block of process_excel_batch for the row at
\* position r (label r - 1): the decision, or the exception raised.
TryRow(ext, ref, d, r) ==
    LET blmid == str_strip(py_str(row_get(ext, r, cBLMID, Str(<<>>))))
        latitude == py_float(row_get(ext, r, cLatitude, None))
    IN IF latitude.raised THEN latitude
       ELSE LET longitude == py_float(row_get(ext, r, cLongitude, None)) IN
            IF longitude.raised THEN longitude
            ELSE _validate_entry(blmid, latitude.value, longitude.value,
                                 ref, r - 1, d)

\* Mutant: the except branch builds error_result without its "error" key.
ErrorResultNoError(ext, r, e) ==
    [status |-> "failed", row |-> r - 1,
     blmid |-> row_get(ext, r, cBLMID, Str(<<"N", "/", "A">>)),
     latitude |-> None, longitude |-> None]

\* error_result of the except branch.
ErrorResult(ext, r, e) ==
    [status |-> "failed", row |-> r - 1,
     blmid |-> row_get(ext, r, cBLMID, Str(<<"N", "/", "A">>)),
     error |-> Message(e.msg, None),
     latitude |-> None, longitude |-> None]

EmptyResults ==
    [valid_entries |-> <<>>, corrected_entries |-> <<>>,
     failed_entries |-> <<>>, total_processed |-> 0, results |-> <<>>]

\* The try block after _validate_entry returned: the decision is appended
\* to results and to the list of its status, and counted.
OnSuccess(res, validation_result) ==
    [res EXCEPT
        !.results = Append(@, validation_result),
        !.valid_entries =
            IF validation_result.status = "valid"
            THEN Append(@, validation_result) ELSE @,
        !.corrected_entries =
            IF validation_result.status = "corrected"
            THEN Append(@, validation_result) ELSE @,
        !.failed_entries =
            IF validation_result.status \notin {"valid", "corrected"}
            THEN Append(@, validation_result) ELSE @,
        !.total_processed = @ + 1]

\* Mutant: the except branch forgets to count the row.
OnExceptionNotCounted(res, error_result) ==
    [res EXCEPT
        !.failed_entries = Append(@, error_result),
        !.results = Append(@, error_result)]

\* Mutant: the except branch puts error_result at the head of the list.
OnExceptionAtHead(res, error_result) ==
    [res EXCEPT
        !.failed_entries = Append(@, error_result),
        !.results = <<error_result>> \o @,
        !.total_processed = @ + 1]

\* The except branch after error_result is built.
OnException(res, error_result) ==
    [res EXCEPT
        !.failed_entries = Append(@, error_result),
        !.results = Append(@, error_result),
        !.total_processed = @ + 1]

\* One iteration of the loop over extracted_df.iterrows().
LoopBody(res, ext, ref, d, r) ==
    LET t == TryRow(ext, ref, d, r) IN
    IF ~t.raised THEN OnSuccess(res, t.value)
    ELSE OnException(res, ErrorResult(ext, r, t))

\* The report files _generate_reports writes (writes taken to succeed).
_generate_reports(res) ==
    {"updated_blmid"}
    \cup (IF res.corrected_entries # <<>> THEN {"corrections_log"} ELSE {})
    \cup (IF res.failed_entries # <<>> THEN {"failed_entries"} ELSE {})

----------------------------------------------------------------------------
(* Validator (validator.py) *)

\* Validator.__init__ defaults, in model units.
coordinate_tolerance == 1
latitude_min == -900000
latitude_max == 900000
longitude_min == -1800000
longitude_max == 1800000

\* The errors validate_coordinates collects for one axis.
AxisErrors(axis, v, lo, hi) ==
    IF v = None THEN <<Message(axis \o " is None", None)>>
    ELSE IF ~IsFloat(v) THEN <<Message(axis \o " must be numeric, got {}", v)>>
    ELSE IF FloatLt(v, Num(lo)) \/ FloatGt(v, Num(hi))
         THEN <<Message(axis \o " {} out of range", v)>>
    ELSE <<>>

\* Mutant: the errors are collected but the verdict is always True.
validate_coordinates_always_ok(latitude, longitude) ==
    <<TRUE,
      AxisErrors("Latitude", latitude, latitude_min, latitude_max)
      \o AxisErrors("Longitude", longitude, longitude_min, longitude_max)>>

\* Validator.validate_coordinates: (is_valid, error_list)
validate_coordinates(latitude, longitude) ==
    LET errors == AxisErrors("Latitude", latitude, latitude_min, latitude_max)
                  \o AxisErrors("Longitude", longitude,
                                longitude_min, longitude_max)
    IN <<Len(errors) = 0, errors>>

\* Mutant: the two differences are added and their sum is held against
\* the tolerance.
coordinates_match_summed(self_coordinate_tolerance, lat1, lon1, lat2, lon2) ==
    IF ~(IsFloat(lat1) /\ IsFloat(lat2) /\ IsFloat(lon1) /\ IsFloat(lon2))
    THEN Raise("TypeError", "unsupported operand type(s) for -")
    ELSE Ok(FloatLe(Num(AbsDiff(lat1, lat2).n + AbsDiff(lon1, lon2).n),
                    Num(self_coordinate_tolerance)))

\* The body of Validator.check_coordinates_match for a validator built with
\* the given coordinate_tolerance; `and` does not evaluate its second
\* operand when the first is False.
coordinates_match(self_coordinate_tolerance, lat1, lon1, lat2, lon2) ==
    LET lat_ok == WithinTolerance(lat1, lat2, self_coordinate_tolerance) IN
    IF lat_ok.raised \/ ~lat_ok.value THEN lat_ok
    ELSE WithinTolerance(lon1, lon2, self_coordinate_tolerance)

\* Validator.check_coordinates_match of the validator built with defaults.
check_coordinates_match(lat1, lon1, lat2, lon2) ==
    coordinates_match(coordinate_tolerance, lat1, lon1, lat2, lon2)

\* Mutant: every identifier counts as present.
TruthyAlways(v) == TRUE

\* Python truthiness of Optional[str]: None and "" are false.
Truthy(v) == v # None /\ ~(IsStr(v) /\ v.s = <<>>)

NoDatabaseMatchError ==
    "No matching BLMID found in database for these coordinates"

\* Mutant: the disagreement with the reference row is reported as an
\* error.
CheckExcelAsError(result, excel_lookup_result) ==
    IF excel_lookup_result = None THEN Ok(result)
    ELSE LET m == check_coordinates_match(result.latitude, result.longitude,
                                          excel_lookup_result.latitude,
                                          excel_lookup_result.longitude) IN
         IF m.raised THEN m
         ELSE IF m.value THEN Ok([result EXCEPT !.excel_match = TRUE])
         ELSE Ok([result EXCEPT !.errors =
                    Append(@, Message("BLMID {} in Excel but coordinates don't match",
                                      result.blmid))])

\* validate_entry from the Excel check on (coordinates already valid).
CheckExcel(result, excel_lookup_result) ==
    IF excel_lookup_result = None THEN Ok(result)
    ELSE LET m == check_coordinates_match(result.latitude, result.longitude,
                                          excel_lookup_result.latitude,
                                          excel_lookup_result.longitude) IN
         IF m.raised THEN m
         ELSE IF m.value THEN Ok([result EXCEPT !.excel_match = TRUE])
         ELSE Ok([result EXCEPT !.warnings =
                    Append(@, Message("BLMID {} in Excel but coordinates don't match",
                                      result.blmid))])

CheckDatabase(result, database_lookup_result) ==
    IF database_lookup_result # None
    THEN LET r1 == [result EXCEPT !.database_match = TRUE] IN
         IF ~Truthy(result.blmid) THEN Ok(r1)
         ELSE LET up == py_upper(database_lookup_result.blmid) IN
              IF up.raised THEN up
              ELSE IF up.value # str_upper(result.blmid.s)
              THEN Ok([r1 EXCEPT !.correction_needed = TRUE,
                                 !.correct_blmid = database_lookup_result.blmid])
              ELSE Ok(r1)
    ELSE Ok([result EXCEPT !.errors =
                Append(@, Message(NoDatabaseMatchError, None))])

\* Mutant: the result keeps the caller's list itself, so what validate_entry
\* appends to the result's errors is appended to the caller's list.
pdf_extraction_errors_aliased(pdf_extraction_errors, result) ==
    IF result.raised THEN pdf_extraction_errors ELSE result.value.errors

\* The caller's pdf_extraction_errors after validate_entry has returned:
\* errors=list(pdf_extraction_errors) gives the result a copy, so the
\* caller's list is as it was.
pdf_extraction_errors_after(pdf_extraction_errors, result) ==
    pdf_extraction_errors

\* Validator.validate_entry
validate_entry(pdf_file, extracted_blmid, extracted_latitude, extracted_longitude, excel_lookup_result, database_lookup_result, pdf_extraction_errors) ==
    LET result == [pdf_file |-> pdf_file, blmid |-> extracted_blmid,
                   latitude |-> extracted_latitude,
                   longitude |-> extracted_longitude,
                   excel_match |-> FALSE, database_match |-> FALSE,
                   correct_blmid |-> extracted_blmid,
                   correction_needed |-> FALSE,
                   errors |-> pdf_extraction_errors, warnings |-> <<>>]
        coords == validate_coordinates(extracted_latitude, extracted_longitude)
    IN IF ~coords[1]
       THEN Ok([result EXCEPT !.errors = @ \o coords[2]])
       ELSE LET after_excel == CheckExcel(result, excel_lookup_result) IN
            IF after_excel.raised THEN after_excel
            ELSE CheckDatabase(after_excel.value, database_lookup_result)

EmptySummary(n) ==
    [total_processed |-> n, valid_entries |-> 0, corrected_entries |-> 0,
     failed_extractions |-> 0, corrections |-> <<>>, results |-> <<>>]

\* Mutant: the decision is put at the head of the result list.
UpdateSummaryPrepends(summary, validation) ==
    IF validation.errors # <<>>
    THEN [summary EXCEPT !.results = <<validation>> \o @,
                         !.failed_extractions = @ + 1]
    ELSE IF validation.correction_needed
    THEN [summary EXCEPT
            !.results = <<validation>> \o @,
            !.corrected_entries = @ + 1,
            !.corrections = Append(@,
                [Original_Entry |-> validation.blmid,
                 Corrected_BLMID |-> validation.correct_blmid,
                 Latitude |-> validation.latitude,
                 Longitude |-> validation.longitude,
                 Source_PDF |-> validation.pdf_file])]
    ELSE [summary EXCEPT !.results = <<validation>> \o @,
                         !.valid_entries = @ + 1]

\* Mutant: a correction the ledger already holds is not appended again.
UpdateSummaryDeduplicates(summary, validation) ==
    LET s1 == [summary EXCEPT !.results = Append(@, validation)]
        entry == [Original_Entry |-> validation.blmid,
                  Corrected_BLMID |-> validation.correct_blmid,
                  Latitude |-> validation.latitude,
                  Longitude |-> validation.longitude,
                  Source_PDF |-> validation.pdf_file]
    IN IF validation.errors # <<>>
       THEN [s1 EXCEPT !.failed_extractions = @ + 1]
       ELSE IF validation.correction_needed
       THEN [s1 EXCEPT
               !.corrected_entries = @ + 1,
               !.corrections =
                   IF \E k \in 1..Len(@) : @[k] = entry THEN @
                   ELSE Append(@, entry)]
       ELSE [s1 EXCEPT !.valid_entries = @ + 1]

\* Mutant: the correction flag is tested before the errors.
UpdateSummaryCorrectionFirst(summary, validation) ==
    LET s1 == [summary EXCEPT !.results = Append(@, validation)] IN
    IF validation.correction_needed
    THEN [s1 EXCEPT
            !.corrected_entries = @ + 1,
            !.corrections = Append(@,
                [Original_Entry |-> validation.blmid,
                 Corrected_BLMID |-> validation.correct_blmid,
                 Latitude |-> validation.latitude,
                 Longitude |-> validation.longitude,
                 Source_PDF |-> validation.pdf_file])]
    ELSE IF validation.errors # <<>>
    THEN [s1 EXCEPT !.failed_extractions = @ + 1]
    ELSE [s1 EXCEPT !.valid_entries = @ + 1]

\* batch_validate after validate_entry returned: the decision is appended
\* and counted in exactly one class.
UpdateSummary(summary, validation) ==
    LET s1 == [summary EXCEPT !.results = Append(@, validation)] IN
    IF validation.errors # <<>>
    THEN [s1 EXCEPT !.failed_extractions = @ + 1]
    ELSE IF validation.correction_needed
    THEN [s1 EXCEPT
            !.corrected_entries = @ + 1,
            !.corrections = Append(@,
                [Original_Entry |-> validation.blmid,
                 Corrected_BLMID |-> validation.correct_blmid,
                 Latitude |-> validation.latitude,
                 Longitude |-> validation.longitude,
                 Source_PDF |-> validation.pdf_file])]
    ELSE [s1 EXCEPT !.valid_entries = @ + 1]

\* ExcelHandler.find_by_blmid: the first row whose BLMID, as text, equals
\* the identifier case-insensitively, its coordinates converted with
\* float(); None when no sheet is loaded or no row has the identifier.
ExcelHandler_find_by_blmid(df, blmid) ==
    IF df = None THEN Ok(None)
    ELSE IF ~HasColumn(df, cBLMID) THEN Raise("KeyError", "'BLMID'")
    ELSE LET matches == BlmidMatches(py_str(blmid), df) IN
         IF matches = {} THEN Ok(None)
         ELSE LET r == FirstOf(matches) IN
              IF ~HasColumn(df, cLatitude) THEN Raise("KeyError", "'Latitude'")
              ELSE LET lat == py_float(row_get(df, r, cLatitude, None)) IN
              IF lat.raised THEN lat
              ELSE IF ~HasColumn(df, cLongitude)
                   THEN Raise("KeyError", "'Longitude'")
              ELSE LET lon == py_float(row_get(df, r, cLongitude, None)) IN
              IF lon.raised THEN lon
              ELSE Ok(Record(row_get(df, r, cBLMID, None), lat.value, lon.value))

\* The body of batch_validate's loop up to the decision: both lookups, then
\* validate_entry.  None of the three calls is inside a try.
ValidateExtraction(extraction, df, d) ==
    LET excel_result ==
            IF Truthy(extraction.blmid)
            THEN ExcelHandler_find_by_blmid(df, extraction.blmid)
            ELSE Ok(None)
    IN IF excel_result.raised THEN excel_result
       ELSE LET database_result ==
                    IF extraction.latitude # None /\ extraction.longitude # None
                    THEN db_find_by_coordinates(d, extraction.latitude,
                                                extraction.longitude,
                                                coordinate_tolerance)
                    ELSE Ok(None)
            IN IF database_result.raised THEN database_result
               ELSE validate_entry(extraction.pdf_file, extraction.blmid,
                                   extraction.latitude, extraction.longitude,
                                   excel_result.value, database_result.value,
                                   extraction.errors)

\* The lookups one iteration of batch_validate's loop calls: the Excel
\* lookup when the identifier is truthy, the authority lookup when both
\* coordinates are there and the Excel lookup has not raised.
LookupsMade(extraction, df, d) ==
    LET excel_called == Truthy(extraction.blmid)
        excel_raised ==
            excel_called /\ ExcelHandler_find_by_blmid(df, extraction.blmid).raised
    IN (IF excel_called THEN {"excel"} ELSE {})
       \cup (IF /\ ~excel_raised
                 /\ extraction.latitude # None
                 /\ extraction.longitude # None
              THEN {"database"} ELSE {})

----------------------------------------------------------------------------
(* Inputs the model draws from *)

tBLM001 == <<"B", "L", "M", "0", "0", "1">>
tBLM002 == <<"B", "L", "M", "0", "0", "2">>
tBLM003 == <<"B", "L", "M", "0", "0", "3">>
tBLM007 == <<"B", "L", "M", "0", "0", "7">>
tblm001 == <<"b", "l", "m", "0", "0", "1">>
tPadded == <<" ", "b", "l", "m", "0", "0", "1", " ">>
tabc == <<"a", "b", "c">>

\* MockDatabase's built-in records: (40.7128, -74.0060), (51.5074, -0.1278),
\* (48.8566, 2.3522).
MockDefaultRecords ==
    <<Record(Str(tBLM001), Num(407128), Num(0 - 740060)),
      Record(Str(tBLM002), Num(515074), Num(0 - 1278)),
      Record(Str(tBLM003), Num(488566), Num(23522))>>

MockDb ==
    [kind |-> "mock", records |-> MockDefaultRecords, reachable |-> TRUE,
     scan |-> "forward"]

\* A live table: a row with a NULL identifier, and a row whose identifier
\* is BLM001 in lower case.
LiveTable ==
    <<Record(None, Num(515074), Num(0 - 1278)),
      Record(Str(tblm001), Num(407128), Num(0 - 740060))>>

LiveDb(reachable) ==
    [kind |-> "live", records |-> LiveTable, reachable |-> reachable,
     scan |-> "forward"]

BatchDbs == {MockDb, LiveDb(TRUE)}

StdHeader == <<cBLMID, cLatitude, cLongitude>>

\* Headers as typed in a sheet; the second has no column that
\* _standardize_columns recognises as BLMID.
ExtHeaders ==
    {<<<<"b", "l", "m", "i", "d">>, <<"L", "a", "t">>, <<"L", "o", "n">>>>,
     <<<<"B", "L", "M", "_", "I", "D">>, <<"L", "a", "t">>, <<"L", "o", "n">>>>}

BatchRows ==
    {<<Str(tPadded), Num(407129), Num(0 - 740060)>>,
     <<Str(tBLM007), Num(407128), Num(0 - 740060)>>,
     <<Str(tBLM002), Num(100000), Num(100000)>>,
     <<Str(tBLM001), Num(950000), Num(2000000)>>,
     <<Str(tBLM001), Str(tabc), Num(0 - 740060)>>,
     <<NaN, Num(515074), Num(0 - 1278)>>}

SeqsUpTo(S, n) == UNION {[1..k -> S] : k \in 0..n}

\* Reference sheets: empty; one exact row; two rows sharing an identifier
\* of which only the second agrees on the location; a sheet without a
\* Latitude column.
BatchRefFrames ==
    {Frame(StdHeader, <<>>),
     Frame(StdHeader, <<<<Str(tBLM001), Num(407128), Num(0 - 740060)>>>>),
     Frame(StdHeader, <<<<Str(tBLM007), Num(0), Num(0)>>,
                        <<Str(tBLM007), Num(407128), Num(0 - 740060)>>>>),
     Frame(<<cBLMID, <<"L", "o", "n">>>>,
           <<<<Str(tBLM001), Num(0 - 740060)>>>>)}

NoCall == [kind |-> "none"]
Unset == [unset |-> TRUE]

----------------------------------------------------------------------------
(* process_excel_batch as a state machine *)

InitProcess ==
    /\ pc = "start"
    /\ extracted_df \in {Frame(h, rows) :
                            h \in ExtHeaders, rows \in SeqsUpTo(BatchRows, MaxRows)}
    /\ reference_df \in BatchRefFrames
    /\ db \in BatchDbs
    /\ idx = 0
    /\ results = Unset
    /\ raised = {}
    /\ call = NoCall
    /\ outcome = NoCall

\* pd.read_excel raises: the batch returns without processing any row.
LoadFailed ==
    /\ pc = "start"
    /\ pc' = "load_failed"
    /\ results' = [success |-> FALSE,
                   error |-> Message("read_excel failed", None),
                   results |-> <<>>]
    /\ UNCHANGED <<extracted_df, reference_df, db, idx, raised, call, outcome>>

\* Both sheets load; their columns are standardised; results is set up.
Load ==
    /\ pc = "start"
    /\ pc' = "loop"
    /\ extracted_df' = _standardize_columns(extracted_df)
    /\ reference_df' = _standardize_columns(reference_df)
    /\ results' = EmptyResults
    /\ UNCHANGED <<db, idx, raised, call, outcome>>

ProcessRow ==
    /\ pc = "loop"
    /\ idx < Len(extracted_df.rows)
    /\ results' = LoopBody(results, extracted_df, reference_df, db, idx + 1)
    /\ raised' = IF TryRow(extracted_df, reference_df, db, idx + 1).raised
                 THEN raised \cup {idx} ELSE raised
    /\ idx' = idx + 1
    /\ UNCHANGED <<pc, extracted_df, reference_df, db, call, outcome>>

\* After the last row: reports are written and the results are returned.
Finish ==
    /\ pc = "loop"
    /\ idx = Len(extracted_df.rows)
    /\ pc' = "done"
    /\ results' = [valid_entries |-> results.valid_entries,
                   corrected_entries |-> results.corrected_entries,
                   failed_entries |-> results.failed_entries,
                   total_processed |-> results.total_processed,
                   results |-> results.results,
                   output_files |-> _generate_reports(results),
                   success |-> TRUE]
    /\ UNCHANGED <<extracted_df, reference_df, db, idx, raised, call, outcome>>

\* What the PDF extractor hands over: an identifier the authority knows
\* under another one, the same with an OCR error noted, an identifier in
\* lower case, one whose location the live table holds with a NULL
\* identifier, a PDF without identifier and coordinates, an identifier
\* whose reference row has a text for a latitude, a PDF without identifier
\* at a location the authority holds, the same with an empty identifier,
\* and a PDF without longitude.
Extraction(pdf_file, blmid, latitude, longitude, errors) ==
    [pdf_file |-> pdf_file, blmid |-> blmid, latitude |-> latitude,
     longitude |-> longitude, errors |-> errors]

Extractions ==
    {Extraction("a.pdf", Str(tBLM007), Num(407128), Num(0 - 740060), <<>>),
     Extraction("b.pdf", Str(tBLM007), Num(407128), Num(0 - 740060),
                <<Message("OCR extraction failed", None)>>),
     Extraction("c.pdf", Str(tblm001), Num(407128), Num(0 - 740060), <<>>),
     Extraction("d.pdf", Str(tBLM002), Num(515074), Num(0 - 1278), <<>>),
     Extraction("e.pdf", None, None, None,
                <<Message("BLMID not found in PDF", None)>>),
     Extraction("f.pdf", Str(tBLM003), Num(488566), Num(23522), <<>>),
     Extraction("g.pdf", None, Num(407128), Num(0 - 740060),
                <<Message("BLMID not found in PDF", None)>>),
     Extraction("h.pdf", Str(<<>>), Num(407128), Num(0 - 740060), <<>>),
     Extraction("i.pdf", Str(tBLM001), Num(407128), None,
                <<Message("Longitude not found in PDF", None)>>)}

HandlerFrames ==
    {Frame(StdHeader, <<>>),
     Frame(StdHeader, <<<<Str(tBLM001), Num(407128), Num(0 - 740060)>>,
                        <<Str(tBLM003), Str(tabc), Num(23522)>>>>)}

\* batch_validate(pdf_extractions, excel_handler, database_connector) has
\* been called.  call.given keeps the extractions as they were handed
\* over, call.lookups the lookups each iteration called.
InitValidate ==
    /\ pc = "called"
    /\ call \in {[kind |-> "batch_validate", pdf_extractions |-> e,
                   given |-> e, lookups |-> <<>>] :
                    e \in SeqsUpTo(Extractions, MaxExtractions)}
    /\ reference_df \in HandlerFrames
    /\ db \in BatchDbs
    /\ extracted_df = Frame(StdHeader, <<>>)
    /\ idx = 0
    /\ results = Unset
    /\ raised = {}
    /\ outcome = NoCall

Init == InitProcess \/ InitValidate

\* results and summary are set up.
BeginValidate ==
    /\ pc = "called"
    /\ pc' = "validate"
    /\ results' = EmptySummary(Len(call.pdf_extractions))
    /\ UNCHANGED <<extracted_df, reference_df, db, idx, raised, call, outcome>>

\* One iteration of the loop whose calls all return.
ValidateNext ==
    /\ pc = "validate"
    /\ idx < Len(call.pdf_extractions)
    /\ LET validation ==
               ValidateExtraction(call.pdf_extractions[idx + 1], reference_df, db)
       IN /\ ~validation.raised
          /\ results' = UpdateSummary(results, validation.value)
          /\ call' = [call EXCEPT
                        !.pdf_extractions[idx + 1].errors =
                            pdf_extraction_errors_after(@, validation),
                        !.lookups =
                            Append(@, LookupsMade(call.pdf_extractions[idx + 1],
                                                  reference_df, db))]
    /\ idx' = idx + 1
    /\ UNCHANGED <<pc, extracted_df, reference_df, db, raised, outcome>>

\* One iteration in which a lookup or validate_entry raises: nothing in
\* batch_validate catches it, and the call ends with the exception.
ValidateRaises ==
    /\ pc = "validate"
    /\ idx < Len(call.pdf_extractions)
    /\ LET validation ==
               ValidateExtraction(call.pdf_extractions[idx + 1], reference_df, db)
       IN /\ validation.raised
          /\ outcome' = validation
    /\ call' = [call EXCEPT
                  !.lookups = Append(@, LookupsMade(call.pdf_extractions[idx + 1],
                                                    reference_df, db))]
    /\ pc' = "raised_out"
    /\ UNCHANGED <<extracted_df, reference_df, db, idx, results, raised>>

\* After the last extraction the summary is returned.
ReturnSummary ==
    /\ pc = "validate"
    /\ idx = Len(call.pdf_extractions)
    /\ pc' = "validated"
    /\ outcome' = Ok(results)
    /\ UNCHANGED <<extracted_df, reference_df, db, idx, results, raised, call>>

Next ==
    \/ LoadFailed \/ Load \/ ProcessRow \/ Finish
    \/ BeginValidate \/ ValidateNext \/ ValidateRaises \/ ReturnSummary

Spec == Init /\ [][Next]_vars

----------------------------------------------------------------------------
(* Direct calls of the two decide functions on drawn arguments *)

\* Identifiers, latitudes around the stored location 40.7128 (at it, at
\* the tolerance, beyond it), at and beyond the range bound, and NaN.
DirectBlmids == {tBLM001, tblm001, tBLM007}

DirectLatitudes ==
    {Num(407128), Num(407129), Num(407130), Num(900000), Num(900001), NaN}

DirectLongitudes == {Num(0 - 740060), Num(1800001)}

RefRowKinds ==
    {<<Str(tBLM001), Num(407128), Num(0 - 740060)>>,
     <<Str(tBLM001), Num(0), Num(0)>>,
     <<Str(tBLM007), Str(tabc), Num(0 - 740060)>>}

DirectRefFrames ==
    {Frame(StdHeader, rows) : rows \in SeqsUpTo(RefRowKinds, MaxRefRows)}
    \cup {Frame(<<cBLMID, cLongitude>>, <<<<Str(tBLM001), Num(0 - 740060)>>>>)}

DbRecordKinds ==
    {Record(Str(tblm001), Num(407128), Num(0 - 740060)),
     Record(Str(tBLM007), Num(407129), Num(0 - 740060)),
     Record(None, Num(407130), Num(0 - 740060))}

DirectDbs ==
    {[kind |-> "live", records |-> t, reachable |-> TRUE, scan |-> "forward"] :
        t \in SeqsUpTo(DbRecordKinds, MaxDbRows)}
    \cup {MockDb, LiveDb(FALSE)}

DirectCalls ==
    {[kind |-> "direct", blmid |-> b, latitude |-> lat, longitude |-> lon,
      row_index |-> 0] :
        b \in DirectBlmids, lat \in DirectLatitudes, lon \in DirectLongitudes}

ValidatorBlmids == {None, Str(<<>>), Str(tBLM001), Str(tblm001), Str(tBLM007)}

ValidatorLatitudes ==
    {None, Str(tabc), NaN, Num(407128), Num(407129), Num(407130),
     Num(900000), Num(900001)}

ValidatorLongitudes == {None, Num(0 - 740060), Num(1800001)}

ExcelLookups ==
    {None,
     Record(Str(tBLM001), Num(407128), Num(0 - 740060)),
     Record(Str(tBLM001), None, Num(0 - 740060))}

DatabaseLookups ==
    {None,
     Record(Str(tBLM001), Num(407128), Num(0 - 740060)),
     Record(Str(tBLM007), Num(407129), Num(0 - 740060)),
     Record(None, Num(407128), Num(0 - 740060))}

ExtractionErrors == {<<>>, <<Message("OCR extraction failed", None)>>}

ValidatorCalls ==
    {[kind |-> "validator", pdf_file |-> "a.pdf", blmid |-> b,
      latitude |-> lat, longitude |-> lon, excel |-> x, database |-> d,
      errors |-> e] :
        b \in ValidatorBlmids, lat \in ValidatorLatitudes,
        lon \in ValidatorLongitudes, x \in ExcelLookups,
        d \in DatabaseLookups, e \in ExtractionErrors}

InitDirect ==
    /\ call \in DirectCalls
    /\ reference_df \in DirectRefFrames
    /\ db \in DirectDbs

InitValidator ==
    /\ call \in ValidatorCalls
    /\ reference_df = Frame(StdHeader, <<>>)
    /\ db = MockDb

\* Arguments of _find_in_reference.
FindCalls ==
    {[kind |-> "find", blmid |-> b, latitude |-> lat, longitude |-> lon] :
        b \in DirectBlmids, lat \in DirectLatitudes, lon \in DirectLongitudes}

InitFind ==
    /\ call \in FindCalls
    /\ reference_df \in DirectRefFrames
    /\ db = MockDb

\* Arguments of find_by_coordinates, put to every authority store.
LookupCalls ==
    {[kind |-> "lookup", latitude |-> lat, longitude |-> lon] :
        lat \in DirectLatitudes, lon \in DirectLongitudes}

\* The stores a lookup is put to: those of the direct calls; the tables of
\* two rows and more on an engine that yields them last row first; the
\* same records held by a MockDatabase; and a table with a NULL latitude,
\* live and in memory.
NullLatitudeTable ==
    <<Record(Str(tBLM007), None, Num(0 - 740060)),
      Record(Str(tblm001), Num(407128), Num(0 - 740060))>>

LookupDbs ==
    DirectDbs
    \cup {[kind |-> "live", records |-> t, reachable |-> TRUE,
           scan |-> "backward"] :
              t \in {u \in SeqsUpTo(DbRecordKinds, MaxDbRows) : Len(u) >= 2}}
    \cup {[kind |-> "mock", records |-> t, reachable |-> TRUE,
           scan |-> "forward"] :
              t \in SeqsUpTo(DbRecordKinds, MaxDbRows) \ {<<>>}}
    \cup {[kind |-> k, records |-> NullLatitudeTable, reachable |-> TRUE,
           scan |-> "forward"] : k \in {"live", "mock"}}

InitLookup ==
    /\ call \in LookupCalls
    /\ reference_df = Frame(StdHeader, <<>>)
    /\ db \in LookupDbs

\* Validators built with a tolerance of 0, 0.0001 and 0.0002 degree, and
\* second points up to 0.0002 degree off the first on either axis.
MatchTolerances == {0, 1, 2}

MatchOffsets == {0 - 2, 0 - 1, 0, 1, 2}

MatchCalls ==
    {[kind |-> "match", tolerance |-> t,
      lat1 |-> Num(407128), lon1 |-> Num(0 - 740060),
      lat2 |-> Num(407128 + a), lon2 |-> Num(b - 740060)] :
        t \in MatchTolerances, a \in MatchOffsets, b \in MatchOffsets}

\* Arguments of validate_coordinates: absent, text, NaN, inside, on and
\* just beyond each bound.
CoordsLatitudes ==
    {None, Str(tabc), NaN, Num(407128), Num(latitude_min), Num(latitude_max),
     Num(latitude_min - 1), Num(latitude_max + 1)}

CoordsLongitudes ==
    {None, Str(tabc), NaN, Num(0 - 740060), Num(longitude_min),
     Num(longitude_max), Num(longitude_min - 1), Num(longitude_max + 1)}

CoordsCalls ==
    {[kind |-> "coords", latitude |-> lat, longitude |-> lon] :
        lat \in CoordsLatitudes, lon \in CoordsLongitudes}

InitPure ==
    /\ call \in MatchCalls \cup CoordsCalls
    /\ reference_df = Frame(StdHeader, <<>>)
    /\ db = MockDb

InitDecide ==
    /\ pc = "call"
    /\ InitDirect \/ InitValidator \/ InitFind \/ InitLookup \/ InitPure
    /\ extracted_df = Frame(StdHeader, <<>>)
    /\ idx = 0
    /\ results = Unset
    /\ raised = {}
    /\ outcome = NoCall

\* processor._validate_entry(blmid, latitude, longitude, reference_df, 0)
CallDirect ==
    /\ pc = "call"
    /\ call.kind = "direct"
    /\ outcome' = _validate_entry(call.blmid, call.latitude, call.longitude,
                                  reference_df, call.row_index, db)
    /\ pc' = "returned"
    /\ UNCHANGED <<extracted_df, reference_df, db, idx, results, raised, call>>

\* validator.validate_entry(...)
CallValidator ==
    /\ pc = "call"
    /\ call.kind = "validator"
    /\ outcome' = validate_entry(call.pdf_file, call.blmid, call.latitude,
                                 call.longitude, call.excel, call.database,
                                 call.errors)
    /\ pc' = "returned"
    /\ UNCHANGED <<extracted_df, reference_df, db, idx, results, raised, call>>

\* The summary step batch_validate performs on the returned decision.
Summarise ==
    /\ pc = "returned"
    /\ call.kind = "validator"
    /\ ~outcome.raised
    /\ results' = UpdateSummary(EmptySummary(1), outcome.value)
    /\ pc' = "summarised"
    /\ UNCHANGED <<extracted_df, reference_df, db, idx, raised, call, outcome>>

\* processor._find_in_reference(blmid, latitude, longitude, reference_df)
CallFind ==
    /\ pc = "call"
    /\ call.kind = "find"
    /\ outcome' = _find_in_reference(call.blmid, call.latitude,
                                     call.longitude, reference_df)
    /\ pc' = "returned"
    /\ UNCHANGED <<extracted_df, reference_df, db, idx, results, raised, call>>

\* db.find_by_coordinates(latitude, longitude, tolerance)
CallLookup ==
    /\ pc = "call"
    /\ call.kind = "lookup"
    /\ outcome' = db_find_by_coordinates(db, call.latitude, call.longitude,
                                         tolerance)
    /\ pc' = "returned"
    /\ UNCHANGED <<extracted_df, reference_df, db, idx, results, raised, call>>

\* The caller overwrites the identifier of the record MockDatabase handed
\* back.
ChangeReturned ==
    /\ pc = "returned"
    /\ call.kind = "lookup"
    /\ db.kind = "mock"
    /\ ~outcome.raised
    /\ outcome.value # None
    /\ LET written == [outcome.value EXCEPT !.blmid = Str(tabc)] IN
       /\ outcome' = Ok(written)
       /\ db' = [db EXCEPT !.records =
                    MockRecordsAfterWrite(@, outcome.value, written)]
    /\ pc' = "changed"
    /\ UNCHANGED <<extracted_df, reference_df, idx, results, raised, call>>

\* Validator(coordinate_tolerance=t).check_coordinates_match(...)
CallMatch ==
    /\ pc = "call"
    /\ call.kind = "match"
    /\ outcome' = coordinates_match(call.tolerance, call.lat1, call.lon1,
                                    call.lat2, call.lon2)
    /\ pc' = "returned"
    /\ UNCHANGED <<extracted_df, reference_df, db, idx, results, raised, call>>

\* validator.validate_coordinates(latitude, longitude)
CallCoords ==
    /\ pc = "call"
    /\ call.kind = "coords"
    /\ outcome' = Ok(validate_coordinates(call.latitude, call.longitude))
    /\ pc' = "returned"
    /\ UNCHANGED <<extracted_df, reference_df, db, idx, results, raised, call>>

\* validator.validate_entry(...) once more with the very same arguments,
\* the extraction-error list being the same list object as the first time.
CallValidatorAgain ==
    /\ pc = "returned"
    /\ call.kind = "validator"
    /\ LET errors == pdf_extraction_errors_after(call.errors, outcome) IN
       /\ results' = [first |-> outcome, given |-> call]
       /\ call' = [call EXCEPT !.errors = errors]
       /\ outcome' = validate_entry(call.pdf_file, call.blmid, call.latitude,
                                    call.longitude, call.excel, call.database,
                                    errors)
    /\ pc' = "repeated"
    /\ UNCHANGED <<extracted_df, reference_df, db, idx, raised>>

NextDecide ==
    \/ CallDirect \/ CallValidator \/ Summarise
    \/ CallFind \/ CallLookup \/ CallMatch \/ CallCoords
    \/ ChangeReturned \/ CallValidatorAgain

SpecDecide == InitDecide /\ [][NextDecide]_vars

----------------------------------------------------------------------------
(* Claims about process_excel_batch, checked under Spec *)

Loaded == pc \in {"loop", "done"}

Statuses == {"valid", "corrected", "failed"}

\* C1: once both sheets have loaded, process_excel_batch holds exactly one
\* decision per row consumed, in row order: results['results'] is as long
\* as the number of rows processed, which is total_processed and, on
\* return, the number of extracted rows; every decision (those of rows
\* that raised included) has a status among valid, corrected, failed, and
\* sits in exactly one of the three status lists.
C1_OneDecisionPerRow ==
    Loaded =>
        /\ Len(results.results) = idx
        /\ results.total_processed = idx
        /\ (pc = "done" => idx = Len(extracted_df.rows))
        /\ Len(results.valid_entries) + Len(results.corrected_entries)
               + Len(results.failed_entries) = idx
        /\ \A i \in 1..Len(results.results) :
              /\ results.results[i].status \in Statuses
              /\ results.results[i].row = i - 1

\* A finished batch of at least two rows in which some row raised and
\* some row did not.
C1_Witness ==
    /\ pc = "done"
    /\ Len(extracted_df.rows) >= 2
    /\ raised # {}
    /\ Cardinality(raised) < idx

\* C9: every decision of DirectExcelProcessor with status failed, whether
\* from a range check, from the no-match branch or from the except branch
\* of process_excel_batch, carries an 'error' whose text is not empty.
C9_FailedHasError ==
    Loaded =>
        /\ \A i \in 1..Len(results.results) :
              results.results[i].status = "failed" =>
                  /\ "error" \in DOMAIN results.results[i]
                  /\ results.results[i].error.text # ""
        /\ \A i \in 1..Len(results.failed_entries) :
              /\ "error" \in DOMAIN results.failed_entries[i]
              /\ results.failed_entries[i].error.text # ""

\* A finished batch holding a range failure, a no-match failure and a
\* failure synthesized by the except branch.
C9_Witness ==
    /\ pc = "done"
    /\ \E i, j, k \in 1..Len(results.results) :
          /\ results.results[i].status = "failed"
          /\ results.results[i].error.text = "Latitude {} out of range [-90, 90]"
          /\ results.results[j].status = "failed"
          /\ results.results[j].error.text = NoMatchError
          /\ (k - 1) \in raised
          /\ results.results[k].status = "failed"

\* The positions of the consumed rows whose processing did not raise.
Kept == {r \in 1..idx : (r - 1) \notin raised}

\* The batch loop run over the rows at positions S only, each row under
\* its own label (the sheet with the other rows dropped).
RECURSIVE RunRows(_)
RunRows(S) ==
    IF S = {} THEN EmptyResults
    ELSE LET m == CHOOSE x \in S : \A y \in S : y <= x IN
         LoopBody(RunRows(S \ {m}), extracted_df, reference_df, db, m)

\* C10: a row whose processing raises gets a synthesized failed decision
\* carrying the exception's message and is counted in total_processed;
\* in the returned results every other row has the decision it gets when
\* the batch is run without the raising rows; all decisions stand in row
\* order.
C10_ExceptionContained ==
    /\ Loaded =>
          /\ results.total_processed = idx
          /\ Len(results.results) = idx
          /\ \A r \in 1..idx :
                (r - 1) \in raised =>
                    /\ results.results[r].status = "failed"
                    /\ results.results[r].row = r - 1
                    /\ results.results[r].error # Message("", None)
    /\ pc = "done" =>
          LET without == RunRows(Kept).results IN
          /\ idx = Len(extracted_df.rows)
          /\ \A r \in 1..idx :
                IF (r - 1) \in raised
                THEN results.results[r].error =
                        Message(TryRow(extracted_df, reference_df, db, r).msg,
                                None)
                ELSE results.results[r] =
                        without[Cardinality({k \in Kept : k <= r})]

\* Three rows of which exactly the second raised, during authority
\* resolution (the identifier the authority returned is not a text).
C10_Witness ==
    /\ pc = "done"
    /\ idx = 3
    /\ raised = {1}
    /\ TryRow(extracted_df, reference_df, db, 2).type = "AttributeError"
    /\ results.results[1].status # "failed"
    /\ results.results[3].status = "corrected"

----------------------------------------------------------------------------
(* Claims about single decisions, checked under SpecDecide *)

Direct == call.kind = "direct"
Validator == call.kind = "validator"
Returned == pc \in {"returned", "summarised"}
Summarised == pc = "summarised"

UpperEq(a, b) == str_upper(a) = str_upper(b)

InBounds(v, lo, hi) == IsNum(v) /\ lo <= v.n /\ v.n <= hi

\* The arguments of a direct call are in range.
DirectInRange ==
    /\ InBounds(call.latitude, 0 - 90 * DegreeUnits, 90 * DegreeUnits)
    /\ InBounds(call.longitude, 0 - 180 * DegreeUnits, 180 * DegreeUnits)

\* The reference lookup and the authority lookup of a direct call.
DirectRef ==
    _find_in_reference(call.blmid, call.latitude, call.longitude, reference_df)

DirectAuth ==
    db_find_by_coordinates(db, call.latitude, call.longitude, tolerance)

DirectRefExact ==
    /\ ~DirectRef.raised
    /\ DirectRef.value # None
    /\ DirectRef.value.match_type = "exact"

DirectRefNotExact ==
    /\ ~DirectRef.raised
    /\ DirectRef.value = None \/ DirectRef.value.match_type # "exact"

\* The authority returned a record whose identifier is a text.
DirectAuthRecord ==
    /\ ~DirectAuth.raised
    /\ DirectAuth.value # None
    /\ IsStr(DirectAuth.value.blmid)

DirectAuthAbsent == ~DirectAuth.raised /\ DirectAuth.value = None

\* The coordinates of a validator call are present, numeric and in bounds.
ValidatorCoordsValid ==
    /\ InBounds(call.latitude, latitude_min, latitude_max)
    /\ InBounds(call.longitude, longitude_min, longitude_max)

Fails(v, lo, hi) ==
    v = None \/ ~IsFloat(v) \/ (IsNum(v) /\ (v.n < lo \/ v.n > hi))

ValidatorCoordsFail ==
    \/ Fails(call.latitude, latitude_min, latitude_max)
    \/ Fails(call.longitude, longitude_min, longitude_max)

Near(a, b) ==
    IsNum(a) /\ IsNum(b) /\ a.n - b.n <= coordinate_tolerance
                        /\ b.n - a.n <= coordinate_tolerance

ExcelNumeric ==
    call.excel # None /\ IsFloat(call.excel.latitude)
                      /\ IsFloat(call.excel.longitude)

\* The reference row found by identifier agrees on the location.
ExcelAgrees ==
    /\ ExcelNumeric
    /\ Near(call.latitude, call.excel.latitude)
    /\ Near(call.longitude, call.excel.longitude)

\* No reference row, or one that disagrees on the location.
ExcelNotExact == call.excel = None \/ (ExcelNumeric /\ ~ExcelAgrees)

\* The authority lookup handed to validate_entry is a record whose
\* identifier is a text.
DatabaseRecord == call.database # None /\ IsStr(call.database.blmid)

\* C2: in _validate_entry, for in-range coordinates, an EXACT reference
\* lookup makes the status valid whatever the authority holds for the
\* location (nothing, a record with another identifier, a record whose
\* identifier is not a text, an unreachable store).
C2_ReferenceExactIsValid ==
    (Returned /\ Direct /\ DirectInRange /\ DirectRefExact) =>
        /\ ~outcome.raised
        /\ outcome.value.status = "valid"
        /\ outcome.value.source = "reference_exact"

\* An exact reference match while the authority returns a record with a
\* different identifier for the location.
C2_Witness ==
    /\ Returned /\ Direct /\ DirectInRange /\ DirectRefExact
    /\ DirectAuthRecord
    /\ ~UpperEq(DirectAuth.value.blmid.s, call.blmid)
    /\ outcome.value.status = "valid"

\* C3 as claimed: in the Validator path an entry with valid coordinates and
\* no extraction errors whose reference row agrees within tolerance is
\* classified valid, with no error and no correction, whatever the
\* authority lookup returned (absent, or a record with any identifier).
C3_ExcelMatchIsValid ==
    (Returned /\ Validator /\ ValidatorCoordsValid /\ call.errors = <<>>
       /\ Truthy(call.blmid) /\ ExcelAgrees
       /\ (call.database = None \/ DatabaseRecord)) =>
        /\ ~outcome.raised
        /\ outcome.value.excel_match
        /\ outcome.value.errors = <<>>
        /\ ~outcome.value.correction_needed
        /\ (Summarised => results.valid_entries = 1)

\* C4: a corrected decision carries a corrected identifier that is present
\* and differs from the entry's identifier case-insensitively, both for
\* _validate_entry results with status corrected and for validate_entry
\* results with correction_needed.
C4_CorrectedDiffers ==
    (Returned /\ ~outcome.raised) =>
        /\ (Direct /\ outcome.value.status = "corrected") =>
              /\ IsStr(outcome.value.corrected_blmid)
              /\ outcome.value.original_blmid = Str(call.blmid)
              /\ ~UpperEq(outcome.value.corrected_blmid.s, call.blmid)
        /\ (Validator /\ outcome.value.correction_needed) =>
              /\ IsStr(outcome.value.correct_blmid)
              /\ IsStr(call.blmid)
              /\ ~UpperEq(outcome.value.correct_blmid.s, call.blmid.s)

\* A corrected decision of _validate_entry for an entry written in lower
\* case.
C4_Witness ==
    /\ Returned /\ Direct /\ ~outcome.raised
    /\ outcome.value.status = "corrected"
    /\ call.blmid = tblm001

\* The preconditions C5, C6 and C7 share: valid coordinates and a
\* reference lookup that is not an exact match.
DirectToAuthority == Returned /\ Direct /\ DirectInRange /\ DirectRefNotExact

ValidatorToAuthority ==
    Returned /\ Validator /\ ValidatorCoordsValid /\ ExcelNotExact

C6_SameIdIsValid ==
    /\ (DirectToAuthority /\ DirectAuthRecord
          /\ UpperEq(DirectAuth.value.blmid.s, call.blmid)) =>
            /\ ~outcome.raised
            /\ outcome.value.status = "valid"
            /\ outcome.value.source = "database_confirmed"
            /\ "corrected_blmid" \notin DOMAIN outcome.value
    /\ (ValidatorToAuthority /\ DatabaseRecord /\ IsStr(call.blmid)
          /\ UpperEq(call.database.blmid.s, call.blmid.s)) =>
            /\ ~outcome.raised
            /\ outcome.value.database_match
            /\ ~outcome.value.correction_needed
            /\ outcome.value.correct_blmid = call.blmid
            /\ (Summarised => /\ results.valid_entries = 1
                              /\ results.corrections = <<>>)

\* C6 amended: as claimed for _validate_entry; for validate_entry
\* authority_match is set and no correction is recorded, and the decision
\* counts as valid when the entry carries no extraction errors (with
\* extraction errors it counts as failed).
C6_SameIdIsValidAmended ==
    /\ (DirectToAuthority /\ DirectAuthRecord
          /\ UpperEq(DirectAuth.value.blmid.s, call.blmid)) =>
            /\ ~outcome.raised
            /\ outcome.value.status = "valid"
            /\ outcome.value.source = "database_confirmed"
            /\ "corrected_blmid" \notin DOMAIN outcome.value
    /\ (ValidatorToAuthority /\ DatabaseRecord /\ IsStr(call.blmid)
          /\ UpperEq(call.database.blmid.s, call.blmid.s)) =>
            /\ ~outcome.raised
            /\ outcome.value.database_match
            /\ ~outcome.value.correction_needed
            /\ outcome.value.correct_blmid = call.blmid
            /\ Summarised =>
                  /\ results.corrections = <<>>
                  /\ results.corrected_entries = 0
                  /\ results.valid_entries =
                        (IF call.errors = <<>> THEN 1 ELSE 0)
                  /\ results.failed_extractions =
                        (IF call.errors = <<>> THEN 0 ELSE 1)

\* The authority confirms, in another letter case, an identifier the
\* reference sheet does not hold at this location.
C6_Witness ==
    /\ DirectToAuthority /\ DirectAuthRecord
    /\ DirectAuth.value.blmid.s # call.blmid
    /\ UpperEq(DirectAuth.value.blmid.s, call.blmid)
    /\ outcome.value.status = "valid"

\* C7: valid coordinates, no exact reference match and no authority
\* record give a failed decision carrying the no-match error, never a
\* valid or corrected one.
C7_NoAuthorityIsFailed ==
    /\ (DirectToAuthority /\ DirectAuthAbsent) =>
            /\ ~outcome.raised
            /\ outcome.value.status = "failed"
            /\ outcome.value.error = Message(NoMatchError, None)
    /\ (ValidatorToAuthority /\ call.database = None) =>
            /\ ~outcome.raised
            /\ ~outcome.value.database_match
            /\ ~outcome.value.correction_needed
            /\ outcome.value.errors =
                  call.errors \o <<Message(NoDatabaseMatchError, None)>>
            /\ Summarised =>
                  /\ results.failed_extractions = 1
                  /\ results.valid_entries = 0
                  /\ results.corrected_entries = 0

\* A reference row at the entry's location under another identifier (a
\* coordinate match) and an authority without a record there.
C7_Witness ==
    /\ DirectToAuthority /\ DirectAuthAbsent
    /\ DirectRef.value # None
    /\ DirectRef.value.match_type = "coordinate"
    /\ outcome.value.status = "failed"

\* A number outside the bounds lo..hi.
OutOf(v, lo, hi) == IsNum(v) /\ (v.n < lo \/ v.n > hi)

\* The latitude handed to validate_entry is a number outside its bounds.
LatitudeOutOfRange == OutOf(call.latitude, latitude_min, latitude_max)

\* A direct call with a latitude or a longitude outside the range checks.
DirectLatitudeOut == OutOf(call.latitude, 0 - 90 * DegreeUnits, 90 * DegreeUnits)

DirectLongitudeOut ==
    OutOf(call.longitude, 0 - 180 * DegreeUnits, 180 * DegreeUnits)

\* What C8 says of every decision behind the coordinate gate, but for its
\* error list.
GateClosed ==
    /\ (Returned /\ Direct /\ (DirectLatitudeOut \/ DirectLongitudeOut)) =>
            /\ ~outcome.raised
            /\ outcome.value.status = "failed"
            /\ outcome.value.error =
                  (IF DirectLatitudeOut
                   THEN Message("Latitude {} out of range [-90, 90]",
                                call.latitude)
                   ELSE Message("Longitude {} out of range [-180, 180]",
                                call.longitude))
            /\ DOMAIN outcome.value =
                  {"status", "row", "blmid", "latitude", "longitude", "error"}
    /\ (Returned /\ Validator /\ ValidatorCoordsFail) =>
            /\ ~outcome.raised
            /\ ~outcome.value.excel_match
            /\ ~outcome.value.database_match
            /\ ~outcome.value.correction_needed
            /\ outcome.value.correct_blmid = call.blmid
            /\ outcome.value.warnings = <<>>
            /\ LatitudeOutOfRange =>
                  \E i \in 1..Len(outcome.value.errors) :
                      outcome.value.errors[i] =
                          Message("Latitude {} out of range", call.latitude)
            /\ Summarised => /\ results.failed_extractions = 1
                              /\ results.corrections = <<>>

\* C8 as claimed: behind the coordinate gate the decision is failed, the
\* lookups have no influence, and the errors of validate_entry are exactly
\* the coordinate validator's error list.
C8_CoordinateGate ==
    /\ GateClosed
    /\ (Returned /\ Validator /\ ValidatorCoordsFail) =>
            outcome.value.errors =
                validate_coordinates(call.latitude, call.longitude)[2]

\* C8 amended: the errors of validate_entry are the entry's extraction
\* errors followed by the coordinate validator's error list.
C8_CoordinateGateAmended ==
    /\ GateClosed
    /\ (Returned /\ Validator /\ ValidatorCoordsFail) =>
            outcome.value.errors =
                call.errors
                \o validate_coordinates(call.latitude, call.longitude)[2]

\* A latitude out of range with a reference row and an authority record
\* both at hand, and an extraction error carried by the entry.
C8_Witness ==
    /\ Summarised /\ Validator /\ LatitudeOutOfRange
    /\ call.excel # None /\ call.database # None
    /\ call.errors # <<>>
    /\ results.failed_extractions = 1

----------------------------------------------------------------------------
(* Claims about the resolvers, the lookups and the coordinate checks,     *)
(* checked under SpecDecide                                               *)

\* C12: decide() is total: validate_entry and _validate_entry return a
\* decision and never raise, whatever the entry and the lookup results,
\* records with an absent or non-text field included.
C12_DecideIsTotal ==
    (Returned /\ (Direct \/ Validator)) => ~outcome.raised

Found == call.kind = "find"

\* Row r of the reference sheet carries the identifier of the call, up to
\* letter case, and numbers within tolerance of its coordinates.
RowIsExact(r) ==
    /\ HasColumn(reference_df, cBLMID)
    /\ HasColumn(reference_df, cLatitude)
    /\ HasColumn(reference_df, cLongitude)
    /\ LET id == row_get(reference_df, r, cBLMID, None)
           lat == row_get(reference_df, r, cLatitude, None)
           lon == row_get(reference_df, r, cLongitude, None)
       IN /\ IsStr(id) /\ UpperEq(id.s, call.blmid)
          /\ Near(lat, call.latitude) /\ Near(lon, call.longitude)

\* C13: _find_in_reference returns match type exact if and only if some
\* row of the reference sheet has the input identifier, case-insensitively,
\* and coordinates within tolerance of the input coordinates; sheets in
\* which several rows share the identifier included.
C13_ExactIffSomeRowAgrees ==
    (Returned /\ Found) =>
        ((~outcome.raised /\ outcome.value # None
            /\ outcome.value.match_type = "exact")
         <=> (\E r \in 1..Len(reference_df.rows) : RowIsExact(r)))

LookedUp == call.kind = "lookup"

\* C14: when the backing store cannot be reached,
\* DatabaseConnector.find_by_coordinates fails with an error that reaches
\* its caller; it does not return the absent result of a lookup that
\* found no record within tolerance.
C14_UnreachableIsSignalled ==
    (Returned /\ LookedUp /\ db.kind = "live" /\ ~db.reachable) =>
        outcome.raised

\* The class batch_validate counts a returned decision in.
ValidatorStatus(validation) ==
    IF validation.errors # <<>> THEN "failed"
    ELSE IF validation.correction_needed THEN "corrected"
    ELSE "valid"

\* C17: the corrected identifier is populated only in a corrected
\* decision: a valid or failed decision of _validate_entry has no
\* corrected_blmid, and a valid or failed decision of validate_entry has
\* no correct_blmid other than the entry's own identifier.
C17_CorrectedIdOnlyWhenCorrected ==
    /\ (Returned /\ Direct /\ ~outcome.raised
          /\ outcome.value.status # "corrected") =>
            "corrected_blmid" \notin DOMAIN outcome.value
    /\ (Returned /\ Validator /\ ~outcome.raised
          /\ ValidatorStatus(outcome.value) # "corrected") =>
            outcome.value.correct_blmid \in {None, call.blmid}

Matched == call.kind = "match"

Abs(x) == IF x < 0 THEN 0 - x ELSE x

\* C18: check_coordinates_match is true if and only if the latitudes and
\* the longitudes each differ by at most the tolerance; with tolerance 0
\* that is equality on both axes, and closeness on one axis never makes
\* up for a difference beyond the tolerance on the other.
C18_ToleranceIsPerAxisInclusive ==
    (Returned /\ Matched) =>
        /\ ~outcome.raised
        /\ outcome.value <=>
              /\ Abs(call.lat1.n - call.lat2.n) <= call.tolerance
              /\ Abs(call.lon1.n - call.lon2.n) <= call.tolerance
        /\ (call.tolerance = 0) =>
              (outcome.value <=>
                  (call.lat1 = call.lat2 /\ call.lon1 = call.lon2))
        /\ (Abs(call.lat1.n - call.lat2.n) > call.tolerance
              \/ Abs(call.lon1.n - call.lon2.n) > call.tolerance) =>
              ~outcome.value

\* Both axes differ by exactly the tolerance and the points match.
C18_Witness ==
    /\ Returned /\ Matched
    /\ call.tolerance = 1
    /\ Abs(call.lat1.n - call.lat2.n) = 1
    /\ Abs(call.lon1.n - call.lon2.n) = 1
    /\ outcome.value

CoordsChecked == call.kind = "coords"

\* The error messages validate_coordinates has for one axis.
AxisTexts(axis) ==
    {axis \o " is None", axis \o " must be numeric, got {}",
     axis \o " {} out of range"}

ErrorsAbout(errors, axis) ==
    {i \in 1..Len(errors) : errors[i].text \in AxisTexts(axis)}

\* C19: validate_coordinates returns ok with no errors if and only if the
\* latitude and the longitude are both present, numeric and inside their
\* bounds, the bounds accepted; otherwise it returns not ok with at least
\* one error, and a bad latitude and a bad longitude each get their own
\* error.
C19_ValidateCoordinates ==
    (Returned /\ CoordsChecked) =>
        LET ok == outcome.value[1]
            errors == outcome.value[2]
            lat_good == InBounds(call.latitude, latitude_min, latitude_max)
            lon_good == InBounds(call.longitude, longitude_min, longitude_max)
        IN /\ ok <=> (lat_good /\ lon_good)
           /\ ok <=> (errors = <<>>)
           /\ lat_good <=> (ErrorsAbout(errors, "Latitude") = {})
           /\ lon_good <=> (ErrorsAbout(errors, "Longitude") = {})

----------------------------------------------------------------------------
(* Claims about the two batches, checked under Spec *)

BatchValidate == call.kind = "batch_validate"

InValidate == BatchValidate /\ pc \in {"validate", "validated", "raised_out"}

\* C11: batch_validate contains the exception of one entry: it never ends
\* with an exception, and it returns a summary that covers every entry.
C11_BatchValidateContains ==
    BatchValidate =>
        /\ pc # "raised_out"
        /\ (pc = "validated" =>
              Len(results.results) = Len(call.pdf_extractions))

\* The decision of the row at position i of the extracted sheet.
RowDecision(i) ==
    LET t == TryRow(extracted_df, reference_df, db, i) IN
    IF t.raised THEN ErrorResult(extracted_df, i, t) ELSE t.value

\* C15: decisions are returned in input order: the i-th decision of the
\* list process_excel_batch returns is the decision of the i-th row, and
\* the i-th decision of batch_validate is the decision of the i-th
\* extraction.
C15_DecisionsInInputOrder ==
    /\ Loaded =>
          /\ Len(results.results) = idx
          /\ \A i \in 1..Len(results.results) : results.results[i].row = i - 1
    /\ pc = "done" =>
          /\ Len(results.results) = Len(extracted_df.rows)
          /\ \A i \in 1..Len(results.results) :
                results.results[i] = RowDecision(i)
    /\ InValidate =>
          /\ Len(results.results) = idx
          /\ (pc = "validated" => idx = Len(call.pdf_extractions))
          /\ \A i \in 1..Len(results.results) :
                LET e == call.pdf_extractions[i] IN
                /\ results.results[i] =
                      ValidateExtraction(e, reference_df, db).value
                /\ results.results[i].pdf_file = e.pdf_file
                /\ results.results[i].blmid = e.blmid
                /\ results.results[i].latitude = e.latitude

\* A returned summary of two different extractions with different
\* decisions.
C15_Witness ==
    /\ BatchValidate /\ pc = "validated"
    /\ Len(results.results) = 2
    /\ results.results[1].pdf_file = "e.pdf"
    /\ results.results[2].pdf_file = "a.pdf"
    /\ results.results[1].errors # <<>>
    /\ results.results[2].correction_needed

LedgerEntry(validation) ==
    [Original_Entry |-> validation.blmid,
     Corrected_BLMID |-> validation.correct_blmid,
     Latitude |-> validation.latitude,
     Longitude |-> validation.longitude,
     Source_PDF |-> validation.pdf_file]

\* The ledger entries of the decisions that flag a correction, in order;
\* with counted, only of those that also carry no error.
RECURSIVE LedgerOf(_, _)
LedgerOf(decisions, counted) ==
    IF decisions = <<>> THEN <<>>
    ELSE LET d == Head(decisions) IN
         (IF d.correction_needed /\ (counted => d.errors = <<>>)
          THEN <<LedgerEntry(d)>> ELSE <<>>)
         \o LedgerOf(Tail(decisions), counted)

RowAlone(i) ==
    LoopBody(EmptyResults,
             Frame(extracted_df.columns, <<extracted_df.rows[i]>>),
             reference_df, db, 1).results[1]

\* The decision batch_validate makes of one extraction handed over alone.
ExtractionAlone(e) ==
    UpdateSummary(EmptySummary(1),
                  ValidateExtraction(e, reference_df, db).value).results[1]

----------------------------------------------------------------------------
(* Claims about repeated calls, the stores and the reference resolver,    *)
(* checked under SpecDecide                                               *)

Repeated == pc = "repeated"

C23_MockAndLiveAgree ==
    (Returned /\ LookedUp /\ db.reachable) =>
        /\ outcome =
              MockDatabase_find_by_coordinates(db.records, call.latitude,
                                               call.longitude, tolerance)
        /\ outcome =
              DatabaseConnector_find_by_coordinates(
                  [db EXCEPT !.kind = "live"], call.latitude, call.longitude,
                  tolerance)

\* Row r of the reference sheet has numbers within tolerance of the
\* coordinates of the call.
RowIsNear(r) ==
    /\ HasColumn(reference_df, cLatitude)
    /\ HasColumn(reference_df, cLongitude)
    /\ Near(row_get(reference_df, r, cLatitude, None), call.latitude)
    /\ Near(row_get(reference_df, r, cLongitude, None), call.longitude)

NearRows == {r \in 1..Len(reference_df.rows) : RowIsNear(r)}

\* The reference lookup of a direct call is a coordinate match; it can
\* only be one when some row is near.
DirectRefCoordinate ==
    LET ref == DirectRef IN
    /\ NearRows # {}
    /\ ~ref.raised
    /\ ref.value # None
    /\ ref.value.match_type = "coordinate"

\* C24: a coordinate match in the reference sheet never decides by
\* itself: _validate_entry returns what it returns for the same entry and
\* authority when the reference lookup finds nothing, which is what the
\* authority consultation gives.
C24_CoordinateMatchDecidesNothing ==
    (Returned /\ Direct /\ DirectRefCoordinate) =>
        /\ outcome = _validate_entry(call.blmid, call.latitude, call.longitude,
                                     Frame(StdHeader, <<>>), call.row_index, db)
        /\ (~outcome.raised /\ outcome.value.status = "valid") =>
              outcome.value.source = "database_confirmed"

\* The reference sheet holds the location under another identifier and
\* the authority holds nothing there: the decision is failed.
C24_Witness ==
    /\ Returned /\ Direct /\ DirectInRange /\ DirectRefCoordinate
    /\ DirectAuthAbsent
    /\ outcome.value.status = "failed"

\* C25: with no exact match in the sheet and at least one row within
\* tolerance, _find_in_reference returns match type coordinate with the
\* identifier of the first such row in sheet order.
C25_CoordinateMatchIsFirstRow ==
    (Returned /\ Found /\ NearRows # {}
       /\ ~(\E r \in 1..Len(reference_df.rows) : RowIsExact(r))) =>
        /\ ~outcome.raised
        /\ outcome.value # None
        /\ outcome.value.match_type = "coordinate"
        /\ outcome.value.row = FirstOf(NearRows)
        /\ outcome.value.blmid =
              row_get(reference_df, FirstOf(NearRows), cBLMID, None)

\* C26: _find_in_reference returns absent for a sheet without rows and
\* does not raise; in general it returns absent exactly when no row is
\* within tolerance of the input coordinates.
C26_AbsentIffNoRowNear ==
    (Returned /\ Found) =>
        /\ IsEmpty(reference_df) => (~outcome.raised /\ outcome.value = None)
        /\ (~outcome.raised /\ outcome.value = None) <=> (NearRows = {})

\* The reference row of the entry's identifier holds numbers that are
\* not within tolerance of the entry's coordinates.
ExcelDisagrees == ExcelNumeric /\ ~ExcelAgrees

\* C27: when the reference row of the entry's identifier disagrees on
\* the coordinates, validate_entry appends exactly one warning and no
\* error for it, leaves excel_match false, and decides as the authority
\* lookup says: as it decides the same entry without a reference row.
C27_DisagreementIsAWarning ==
    (Returned /\ Validator /\ ValidatorCoordsValid /\ ExcelDisagrees
       /\ (call.database = None \/ DatabaseRecord)) =>
        /\ ~outcome.raised
        /\ outcome.value.warnings =
              <<Message("BLMID {} in Excel but coordinates don't match",
                        call.blmid)>>
        /\ ~outcome.value.excel_match
        /\ outcome.value.errors =
              call.errors \o (IF call.database = None
                              THEN <<Message(NoDatabaseMatchError, None)>>
                              ELSE <<>>)
        /\ [outcome.value EXCEPT !.warnings = <<>>] =
              validate_entry(call.pdf_file, call.blmid, call.latitude,
                             call.longitude, None, call.database,
                             call.errors).value

\* A disagreeing reference row and an authority record under another
\* identifier: one warning, and the correction the authority calls for.
C27_Witness ==
    /\ Returned /\ Validator /\ ValidatorCoordsValid /\ ExcelDisagrees
    /\ DatabaseRecord
    /\ Len(outcome.value.warnings) = 1
    /\ outcome.value.correction_needed
    /\ outcome.value.errors = <<>>

----------------------------------------------------------------------------
(* Claims about batch_validate's errors, counts and lookups, checked      *)
(* under Spec                                                             *)

\* A sequence begins with another.
BeginsWith(seq, head) ==
    /\ Len(head) <= Len(seq)
    /\ SubSeq(seq, 1, Len(head)) = head

\* The errors validate_entry itself finds for an extraction that is
\* handed over without errors of its own.
CoreErrors(e) ==
    ValidateExtraction([e EXCEPT !.errors = <<>>], reference_df, db).value.errors

CountOf(P(_)) ==
    Cardinality({i \in 1..Len(results.results) : P(results.results[i])})

HasErrors(validation) == validation.errors # <<>>

IsCorrected(validation) ==
    validation.errors = <<>> /\ validation.correction_needed

IsValid(validation) ==
    validation.errors = <<>> /\ ~validation.correction_needed

\* C29: batch_validate counts every decision in exactly one class,
\* failure first: failed when it carries an error, else corrected when it
\* flags a correction, else valid.  The three counts add up to
\* total_processed and to the number of results, the ledger has
\* corrected_entries entries, and a decision with an error is never in
\* the ledger.
C29_SummaryPartition ==
    InValidate =>
        /\ results.failed_extractions = CountOf(HasErrors)
        /\ results.corrected_entries = CountOf(IsCorrected)
        /\ results.valid_entries = CountOf(IsValid)
        /\ results.valid_entries + results.corrected_entries
              + results.failed_extractions = Len(results.results)
        /\ results.total_processed = Len(call.given)
        /\ pc = "validated" =>
              /\ outcome = Ok(results)
              /\ Len(results.results) = results.total_processed
        /\ Len(results.corrections) = results.corrected_entries
        /\ \A i \in 1..Len(results.results) :
              HasErrors(results.results[i]) =>
                  \A k \in 1..Len(results.corrections) :
                      results.corrections[k].Source_PDF
                          # results.results[i].pdf_file

\* A returned summary with a decision that flags a correction and
\* carries an error, counted failed, next to a corrected one.
C29_Witness ==
    /\ BatchValidate /\ pc = "validated"
    /\ results.failed_extractions = 1
    /\ results.corrected_entries = 1
    /\ \E i \in 1..Len(results.results) :
          HasErrors(results.results[i]) /\ results.results[i].correction_needed

NoIdentifier(e) == e.blmid = None \/ e.blmid = Str(<<>>)

\* C30: an entry whose identifier is absent or empty is never flagged for
\* correction, also when the authority holds a record at its location:
\* correction_needed is false and correct_blmid is the extracted value.
\* batch_validate calls no reference lookup for such an entry and no
\* authority lookup for an entry with a missing coordinate.
C30_NoIdentifierNoCorrection ==
    InValidate =>
        /\ Len(call.lookups) = (IF pc = "raised_out" THEN idx + 1 ELSE idx)
        /\ \A i \in 1..Len(call.lookups) :
              LET e == call.given[i] IN
              /\ NoIdentifier(e) => "excel" \notin call.lookups[i]
              /\ (e.latitude = None \/ e.longitude = None) =>
                    "database" \notin call.lookups[i]
        /\ \A i \in 1..Len(results.results) :
              NoIdentifier(call.given[i]) =>
                  /\ ~results.results[i].correction_needed
                  /\ results.results[i].correct_blmid = call.given[i].blmid

\* A returned summary with an entry of empty identifier whose location
\* the authority holds, and an entry without longitude.
C30_Witness ==
    /\ BatchValidate /\ pc = "validated"
    /\ Len(results.results) = 2
    /\ call.given[1].blmid = Str(<<>>)
    /\ results.results[1].database_match
    /\ ~results.results[1].correction_needed
    /\ call.lookups[1] = {"database"}
    /\ call.given[2].longitude = None
    /\ call.lookups[2] = {"excel"}

====
